---- MODULE Spec2Model ----
(***************************************************************************)
(* A model of the captcha-generator crate (src/src/lib.rs).                *)
(*                                                                         *)
(* Captcha::with_config runs generate_code and then the image pipeline     *)
(* create_background -> draw_text -> add_interference_lines ->             *)
(* add_noise_dots -> add_wave_distortion.  Each function is one action.    *)
(*                                                                         *)
(* Modelling conventions                                                   *)
(*  - rand::thread_rng() is a pseudo random generator: all its future      *)
(*    outputs are fixed by its hidden state.  The variable rng holds that  *)
(*    state, stepped by a linear congruential rule; every state is a       *)
(*    possible initial state.  A raw output is the state scaled to         *)
(*    0..RawMax, and gen_range scales a raw output into the requested      *)
(*    range so that the raw outputs 0 and RawMax give its two ends.        *)
(*  - f32 values are exact rationals [n, d] (d > 0).  A record with d = 0  *)
(*    stands for a finite f32 of magnitude n * 1e30, far outside the i32   *)
(*    range.  Rounding of f32 arithmetic is not modelled.                  *)
(*  - sin() is sampled where it is rational (multiples of pi/6 and pi/2):  *)
(*    the indices of a modelled row or column stand for the rows/columns   *)
(*    of a real canvas at which the phase index * frequency has such a     *)
(*    value; index 0 is the real index 0 (phase 0).                        *)
(*  - u8 / i32 arithmetic keeps its width.  An overflowing + or - panics   *)
(*    in a build with overflow checks (debug) and wraps in one without     *)
(*    (release); the variable build says which build runs.                 *)
(***************************************************************************)
EXTENDS Integers, Sequences, FiniteSets, TLC

VARIABLES
    pc,       \* position inside Captcha::with_config
    build,    \* "debug" (overflow checks) or "release" (wrapping)
    config,   \* the CaptchaConfig passed to with_config
    font,     \* the glyph table read from FONT_DATA
    rng,      \* state of rand::thread_rng()
    code,     \* let code = generate_code(..)
    img,      \* the RgbImage the stages work on
    locals,   \* the locals of the stage that ran last (its draws, its input)
    trace,    \* the stages called so far, in call order
    captcha   \* the Captcha returned by with_config (NoCaptcha before)

vars == <<pc, build, config, font, rng, code, img, locals, trace, captcha>>

---------------------------------------------------------------------------
(* Bounds of the model *)

MaxW == 3          \* canvas widths 1..MaxW
MaxH == 3          \* canvas heights 1..MaxH
MaxLen == 2        \* code_length 0..MaxLen
MaxDots == 2       \* noise_dots 0..MaxDots
RngMod == 16       \* the random generator has the states 0..RngMod-1
RawMax == 1        \* raw random outputs are 0..RawMax

---------------------------------------------------------------------------
(* Machine integers *)

I32_MAX == 2147483647
I32_MIN == -I32_MAX - 1
U8_MAX == 255

Max(a, b) == IF a >= b THEN a ELSE b
Min(a, b) == IF a <= b THEN a ELSE b

\* i32 a + b: [v |-> wrapped value, overflow |-> whether it overflowed].
\* Computed without leaving the 32-bit range.
I32Add(a, b) ==
    IF b > 0 /\ a > I32_MAX - b
    THEN [v |-> (a + I32_MIN) + (b + I32_MIN), overflow |-> TRUE]
    ELSE IF b < 0 /\ a < I32_MIN - b
    THEN [v |-> (a - I32_MIN) + (b - I32_MIN), overflow |-> TRUE]
    ELSE [v |-> a + b, overflow |-> FALSE]

\* u8 a + b and a - b, wrapped, with the overflow flag.
U8Add(a, b) == [v |-> (a + b) % (U8_MAX + 1), overflow |-> a + b > U8_MAX]
U8Sub(a, b) == [v |-> (a - b) % (U8_MAX + 1), overflow |-> a - b < 0]

\* Ord::clamp
Clamp(v, lo, hi) == Max(lo, Min(v, hi))

---------------------------------------------------------------------------
(* f32 values as rationals *)

RECURSIVE Gcd(_, _)
Gcd(a, b) == IF b = 0 THEN a ELSE Gcd(b, a % b)

Abs(a) == IF a < 0 THEN -a ELSE a

\* The rational n/d in lowest terms (d > 0).
R(n, d) ==
    LET g == Gcd(Abs(n), d)
    IN  [n |-> n \div g, d |-> d \div g]

\* A finite f32 of magnitude n * 1e30.
Huge(n) == [n |-> n, d |-> 0]
IsHuge(r) == r.d = 0

RInt(n) == [n |-> n, d |-> 1]

RAdd(a, b) == R(a.n * b.d + b.n * a.d, a.d * b.d)
RSub(a, b) == R(a.n * b.d - b.n * a.d, a.d * b.d)
\* A product with a huge factor is huge unless the other factor is 0.
RMul(a, b) ==
    IF a.n = 0 \/ b.n = 0 THEN RInt(0)
    ELSE IF IsHuge(a) \/ IsHuge(b)
    THEN Huge(IF (a.n > 0) = (b.n > 0) THEN 1 ELSE -1)
    ELSE R(a.n * b.n, a.d * b.d)
RHalf(a) == R(a.n, a.d * 2)

\* a < b.  Two huge values compare by their multiples of 1e30.
RLt(a, b) ==
    IF IsHuge(a) /\ IsHuge(b) THEN a.n < b.n
    ELSE IF IsHuge(a) THEN a.n < 0
    ELSE IF IsHuge(b) THEN b.n > 0
    ELSE a.n * b.d < b.n * a.d

\* Rounding toward zero and toward minus infinity.
RTrunc(r) == IF r.n >= 0 THEN r.n \div r.d ELSE -((-r.n) \div r.d)
RFloor(r) == r.n \div r.d

\* `f as i32`: rounds toward zero and saturates at the i32 bounds.
AsI32(r) ==
    IF IsHuge(r) THEN (IF r.n > 0 THEN I32_MAX ELSE I32_MIN) ELSE RTrunc(r)

\* `f as u8`: rounds toward zero and saturates at 0 and 255.
AsU8(r) == Clamp(RTrunc(r), 0, U8_MAX)

---------------------------------------------------------------------------
(* rand::thread_rng() *)

RngStates == 0..(RngMod - 1)

\* The generator's state after k more draws.
RECURSIVE RngAfter(_, _)
RngAfter(s, k) == IF k = 0 THEN s ELSE RngAfter((5 * s + 3) % RngMod, k - 1)

\* The raw output of the draw made after pos + k earlier draws of the
\* running stage: the state then, scaled to 0..RawMax.
Raw(pos, k) == (RngAfter(rng, pos + k) * (RawMax + 1)) \div RngMod

\* Whether gen_range(lo..hi) panics ("cannot sample empty range").
EmptyRange(lo, hi) == ~(lo < hi)
EmptyRangeF(lo, hi) == ~RLt(lo, hi)

\* rng.gen_range(lo..hi) on integers, lo < hi: raw 0 gives lo, raw RawMax
\* gives hi - 1.
GenRange(raw, lo, hi) == lo + (raw * (hi - lo - 1)) \div RawMax

\* rng.gen_range(lo..hi) on f32, lo < hi: lo + (hi - lo) * u with
\* u = raw / (RawMax + 1) in [0, 1).  Inside a huge range the value is huge.
GenRangeF(raw, lo, hi) ==
    IF IsHuge(lo) \/ IsHuge(hi) THEN (IF raw = 0 \/ IsHuge(lo) THEN lo ELSE Huge(hi.n))
    ELSE RAdd(lo, RMul(RSub(hi, lo), R(raw, RawMax + 1)))

\* rng.gen_bool(pn / pd): true iff u < p with u = raw / (RawMax + 1).
GenBool(raw, pn, pd) == raw * pd < pn * (RawMax + 1)

---------------------------------------------------------------------------
(* RgbImage *)

Grid(w, h) == (0..(w - 1)) \X (0..(h - 1))

\* RgbImage::new with its arguments exchanged.
NewImageSwapped(w, h) ==
    [width |-> h, height |-> w, px |-> [p \in Grid(h, w) |-> <<0, 0, 0>>]]

\* RgbImage::new(width, height): all pixels zero.
NewImage(w, h) ==
    [width |-> w, height |-> h, px |-> [p \in Grid(w, h) |-> <<0, 0, 0>>]]

InBounds(image, x, y) == <<x, y>> \in DOMAIN image.px

\* put_pixel (panics out of bounds: callers are modelled with their checks).
PutPixel(image, x, y, c) == [image EXCEPT !.px[<<x, y>>] = c]

NoImage == [width |-> 0, height |-> 0, px |-> <<>>]
NoLocals == [stage |-> "none"]
NoCaptcha == [code |-> <<>>, image |-> NoImage, returned |-> FALSE]

---------------------------------------------------------------------------
(* generate_code *)

\* The alphabet with the letters I and O left in.
charset_ambiguous ==
    << "2", "3", "4", "5", "6", "7", "8", "9",
       "A", "B", "C", "D", "E", "F", "G", "H", "I", "J", "K", "L", "M",
       "N", "O", "P", "Q", "R", "S", "T", "U", "V", "W", "X", "Y", "Z" >>

charset ==
    << "2", "3", "4", "5", "6", "7", "8", "9",
       "A", "B", "C", "D", "E", "F", "G", "H", "J", "K", "L", "M",
       "N", "P", "Q", "R", "S", "T", "U", "V", "W", "X", "Y", "Z" >>

\* generate_code over the inclusive range 0..=len.
generate_code_inclusive(len, pos) ==
    [ code |-> [i \in 1..(len + 1) |-> "2"], pos |-> pos + len + 1 ]

\* (0..len).map(|_| charset.chars().nth(rng.gen_range(0..charset.len())).unwrap())
\* One draw per character.
generate_code(len, pos) ==
    [ code |-> [i \in 1..len |->
                  charset[GenRange(Raw(pos, i - 1), 0, Len(charset)) + 1]],
      pos  |-> pos + len ]

---------------------------------------------------------------------------
(* create_background *)

\* create_background's pixel with the base 250 in place of 245.
BackgroundPixelBright(raw_base, raw_g, raw_b) ==
    [ c        |-> << (250 + GenRange(raw_base, 0, 10)) % (U8_MAX + 1), 250, 250 >>,
      overflow |-> 250 + GenRange(raw_base, 0, 10) > U8_MAX ]

\* One pixel from its three draws: base = 245 + gen_range(0..10),
\* g, b = (base - gen_range(0..5)).clamp(240, 255), all in u8.
BackgroundPixel(raw_base, raw_g, raw_b) ==
    LET base == U8Add(245, GenRange(raw_base, 0, 10))
        g    == U8Sub(base.v, GenRange(raw_g, 0, 5))
        b    == U8Sub(base.v, GenRange(raw_b, 0, 5))
    IN  [ c        |-> <<base.v, Clamp(g.v, 240, 255), Clamp(b.v, 240, 255)>>,
          overflow |-> base.overflow \/ g.overflow \/ b.overflow ]

\* The three draws of the (i + 1)-th pixel of the loop.
PixelAt(i, pos) ==
    BackgroundPixel(Raw(pos, 3 * i), Raw(pos, 3 * i + 1), Raw(pos, 3 * i + 2))

\* for y in 0..height { for x in 0..width { .. put_pixel(x, y, ..) } }
\* Pixel (x, y) is the (y * width + x + 1)-th of the loop.
create_background(width, height, pos) ==
    [ img      |-> [ NewImage(width, height) EXCEPT !.px =
                       [p \in DOMAIN @ |-> PixelAt(p[2] * width + p[1], pos).c] ],
      pos      |-> pos + 3 * width * height,
      overflow |-> \E p \in Grid(width, height) :
                      PixelAt(p[2] * width + p[1], pos).overflow ]

\* The call as a statement: an overflow panics in a build that checks it.
Panicking(r, checks) ==
    [img |-> r.img, pos |-> r.pos, overflow |-> r.overflow,
     panic |-> checks /\ r.overflow]

Background(width, height, pos, checks) ==
    Panicking(create_background(width, height, pos), checks)

---------------------------------------------------------------------------
(* The font: font.glyph(ch).scaled(scale) *)

NoBB == [none |-> TRUE]

\* A glyph with an outline: its advance width, its exact bounding box and the
\* coverage samples glyph.draw reports, in call order (the last one is below
\* the 0.01 threshold).
GlyphInk ==
    [ advance_width |-> RInt(2),
      bb   |-> [none |-> FALSE, min_x |-> RInt(0), min_y |-> RInt(-2),
                width |-> RInt(2), height |-> RInt(2)],
      mask |-> << [gx |-> 0, gy |-> 0, v |-> RInt(1)],
                  [gx |-> 1, gy |-> 1, v |-> R(1, 2)],
                  [gx |-> 0, gy |-> 1, v |-> R(1, 200)] >> ]

\* A glyph without an outline: exact_bounding_box() is None, nothing to draw.
GlyphBlank == [advance_width |-> RInt(1), bb |-> NoBB, mask |-> << >>]

\* The glyph table is fixed by FONT_DATA; font.no_outline are the characters
\* whose glyph has no outline in it.
Glyph(ch) == IF ch \in font.no_outline THEN GlyphBlank ELSE GlyphInk

Fonts == { [no_outline |-> {}], [no_outline |-> {"2"}], [no_outline |-> {"Z"}] }
FullFont == [no_outline |-> {}]

---------------------------------------------------------------------------
(* draw_character *)

\* cos and sin of the rotations gen_range(-0.26..0.26) is sampled at:
\* -atan(9/40), 0 and atan(9/40) = 0.2213 rad.
Rotations ==
    << [cos |-> R(40, 41), sin |-> R(-9, 41)],
       [cos |-> RInt(1),   sin |-> RInt(0)],
       [cos |-> R(40, 41), sin |-> R(9, 41)] >>

\* The alpha blend of one channel: (bg * (1 - alpha) + color * alpha) as u8.
Blend(bg, color, alpha) ==
    AsU8(RAdd(RMul(RInt(bg), RSub(RInt(1), alpha)), RMul(RInt(color), alpha)))

\* The closure passed to glyph.draw, for one sample (gx, gy, v): the pixel it
\* puts, or no pixel.  [hit, x, y, c]
DrawSample(image, s, bb, params) ==
    LET cx == RHalf(bb.width)
        cy == RHalf(bb.height)
        gx_f == RSub(RInt(s.gx), cx)
        gy_f == RSub(RInt(s.gy), cy)
        cos_r == params.rotation.cos
        sin_r == params.rotation.sin
        rotated_x == RSub(RMul(gx_f, cos_r), RMul(gy_f, sin_r))
        rotated_y == RAdd(RMul(gx_f, sin_r), RMul(gy_f, cos_r))
        final_x == AsI32(RAdd(RAdd(RAdd(rotated_x, cx), params.x_offset), bb.min_x))
        final_y == AsI32(RAdd(RAdd(RAdd(rotated_y, cy), params.y_offset), bb.min_y))
        miss == [hit |-> FALSE, x |-> 0, y |-> 0, c |-> <<0, 0, 0>>]
    IN  IF RLt(s.v, R(1, 100)) THEN miss
        ELSE IF final_x >= 0 /\ final_y >= 0
                /\ final_x < image.width /\ final_y < image.height
        THEN LET bg == image.px[<<final_x, final_y>>]
             IN  [ hit |-> TRUE, x |-> final_x, y |-> final_y,
                   c |-> << Blend(bg[1], params.color[1], s.v),
                            Blend(bg[2], params.color[2], s.v),
                            Blend(bg[3], params.color[3], s.v) >> ]
        ELSE miss

\* glyph.draw(..) over the first k samples: [img, wrote], wrote being the
\* pixels put.
PutSample(before, d) ==
    IF d.hit
    THEN [ img   |-> PutPixel(before.img, d.x, d.y, d.c),
           wrote |-> before.wrote \cup {<<d.x, d.y>>} ]
    ELSE before

StepSample(before, s, bb, params) ==
    PutSample(before, DrawSample(before.img, s, bb, params))

RECURSIVE DrawSamples(_, _, _, _, _)
DrawSamples(image, mask, k, bb, params) ==
    IF k = 0 THEN [img |-> image, wrote |-> {}]
    ELSE StepSample(DrawSamples(image, mask, k - 1, bb, params), mask[k], bb, params)

\* draw_character: draws only `if let Some(bb) = glyph.exact_bounding_box()`.
DrawGlyph(image, glyph, params) ==
    IF glyph.bb.none
    THEN [img |-> image, wrote |-> {}]
    ELSE DrawSamples(image, glyph.mask, Len(glyph.mask), glyph.bb, params)

draw_character(image, ch, params) == DrawGlyph(image, Glyph(ch), params)

---------------------------------------------------------------------------
(* draw_text *)

char_spacing == 8

\* The first loop: total_width += advance_width + char_spacing, per character.
RECURSIVE SumWidths(_, _)
SumWidths(text, k) ==
    IF k = 0 THEN RInt(0)
    ELSE RAdd(SumWidths(text, k - 1),
              RAdd(Glyph(text[k]).advance_width, RInt(char_spacing)))

\* total_width after `total_width -= char_spacing`.
TotalWidth(text) == RSub(SumWidths(text, Len(text)), RInt(char_spacing))

\* start_x = (img.width() as f32 - total_width) / 2.0
StartX(image, text) == RHalf(RSub(RInt(image.width), TotalWidth(text)))

\* base_y = (img.height() as f32 / 2.0) + (font_size / 3.0)
BaseY(image, font_size) ==
    RAdd(RHalf(RInt(image.height)), RMul(font_size, R(1, 3)))

\* The cursor advancing only for the characters that were drawn.
CursorStepInk(current_x, ch) ==
    IF Glyph(ch).bb.none THEN current_x
    ELSE RAdd(current_x, RAdd(Glyph(ch).advance_width, RInt(char_spacing)))

\* current_x += advance + char_spacing
CursorStep(current_x, ch) ==
    RAdd(current_x, RAdd(Glyph(ch).advance_width, RInt(char_spacing)))

\* The draws of the k-th character (six per character, in this order):
\* rotation, y_offset, x_offset and the three colour channels.
CharParams(k, current_x, base_y, pos) ==
    LET at(j) == Raw(pos, 6 * (k - 1) + j)
    IN  [ rotation |-> Rotations[GenRange(at(0), 0, Len(Rotations)) + 1],
          y_offset |-> RAdd(base_y, GenRangeF(at(1), RInt(-5), RInt(5))),
          x_offset |-> RAdd(current_x, GenRangeF(at(2), RInt(-2), RInt(2))),
          color    |-> << GenRange(at(3), 30, 70), GenRange(at(4), 30, 70),
                          GenRange(at(5), 30, 70) >> ]

\* The second loop over the first k characters: the image, the cursor and,
\* per character, what was done for it.
\* What the loop body did for one character.
CharDone(before, ch, params, drawn, after) ==
    [ img       |-> drawn.img,
      current_x |-> after,
      chars     |-> Append(before.chars,
                      [ ch |-> ch,
                        advance |-> Glyph(ch).advance_width,
                        has_bb |-> ~Glyph(ch).bb.none,
                        x_offset |-> params.x_offset,
                        cursor_before |-> before.current_x,
                        cursor_after |-> after,
                        wrote |-> drawn.wrote ]) ]

\* The loop body: draw_character(img, ch, params, ..); current_x += ..
DrawChar(before, ch, params) ==
    CharDone(before, ch, params, draw_character(before.img, ch, params),
             CursorStep(before.current_x, ch))

CharStep(before, ch, k, base_y, pos) ==
    DrawChar(before, ch, CharParams(k, before.current_x, base_y, pos))

RECURSIVE DrawChars(_, _, _, _, _, _)
DrawChars(image, text, k, start_x, base_y, pos) ==
    IF k = 0 THEN [img |-> image, current_x |-> start_x, chars |-> << >>]
    ELSE CharStep(DrawChars(image, text, k - 1, start_x, base_y, pos),
                  text[k], k, base_y, pos)

TextDone(image, text, pos, start_x, done) ==
    [ img    |-> done.img,
      pos    |-> pos + 6 * Len(text),
      locals |-> [ stage |-> "text", input |-> image, text |-> text,
                   start_x |-> start_x, chars |-> done.chars ] ]

TextFrom(image, text, font_size, pos, start_x) ==
    TextDone(image, text, pos, start_x,
             DrawChars(image, text, Len(text), start_x, BaseY(image, font_size), pos))

draw_text(image, text, font_size, pos) ==
    TextFrom(image, text, font_size, pos, StartX(image, text))

---------------------------------------------------------------------------
(* sin() at the sampled phases *)

\* sin at the phases 0, pi/6, pi/2, 5pi/6, pi, 7pi/6, 3pi/2, 11pi/6.
SinTable ==
    << RInt(0), R(1, 2), RInt(1), R(1, 2), RInt(0), R(-1, 2), RInt(-1), R(-1, 2) >>

\* (i as f32 * frequency).sin(): index 0 has phase 0; the drawn frequency
\* fixes how many table phases lie between consecutive modelled indices.
Sin(i, freq_raw) == SinTable[((i * (1 + 2 * freq_raw)) % Len(SinTable)) + 1]

---------------------------------------------------------------------------
(* add_interference_lines *)

\* The draws of line l (six per line, after the draw of the line count):
\* colour, start_y, amplitude, frequency.
LineParams(l, height, pos) ==
    LET at(j) == Raw(pos, 1 + 6 * (l - 1) + j)
    IN  [ color     |-> << GenRange(at(0), 180, 210), GenRange(at(1), 180, 210),
                           GenRange(at(2), 180, 210) >>,
          start_y   |-> GenRange(at(3), 0, height),
          amplitude |-> GenRangeF(at(4), RInt(8), RInt(12)),
          freq_raw  |-> at(5) ]

\* y = start_y + (x as f32 * frequency).sin() * amplitude
LineY(line, x) ==
    RAdd(RInt(line.start_y), RMul(Sin(x, line.freq_raw), line.amplitude))

\* py = (y as i32 + dy).max(0).min(height as i32 - 1) as u32
LineRow(line, x, dy, height) ==
    Min(Max(I32Add(AsI32(LineY(line, x)), dy).v, 0), height - 1)

\* A line of the rows dy in 0..=1 only.
LinePixelsThin(line, width, height) ==
    { <<x, LineRow(line, x, dy, height)>> : x \in 0..(width - 1), dy \in 0..1 }
        \cap Grid(width, height)

\* The pixels one line puts: for x in 0..width, for dy in -1..=1,
\* guarded by `x < width && py < height`.
LinePixels(line, width, height) ==
    { <<x, LineRow(line, x, dy, height)>> : x \in 0..(width - 1), dy \in -1..1 }
        \cap Grid(width, height)

\* The image after the first k lines.
\* put_pixel(.., color) at every pixel of hit.
Paint(image, hit, color) ==
    [image EXCEPT !.px =
        [p \in DOMAIN image.px |-> IF p \in hit THEN color ELSE image.px[p]]]

DrawLine(before, line) ==
    Paint(before, LinePixels(line, before.width, before.height), line.color)

\* The image after the first k lines.
RECURSIVE DrawLines(_, _, _)
DrawLines(image, k, pos) ==
    IF k = 0 THEN image
    ELSE DrawLine(DrawLines(image, k - 1, pos), LineParams(k, image.height, pos))

LinesDrawn(image, count, pos) ==
    [ panic  |-> FALSE,
      img    |-> DrawLines(image, count, pos),
      pos    |-> pos + 1 + 6 * count,
      locals |-> [ stage |-> "lines", input |-> image, count |-> count,
                   lines |-> [l \in 1..count |-> LineParams(l, image.height, pos)] ] ]

\* panic: gen_range on an empty range.
add_interference_lines(image, line_range, pos) ==
    IF EmptyRange(line_range[1], line_range[2])
    THEN [ panic |-> TRUE, img |-> image, pos |-> pos,
           locals |-> [stage |-> "lines", input |-> image, count |-> 0,
                       lines |-> << >>] ]
    ELSE LinesDrawn(image, GenRange(Raw(pos, 0), line_range[1], line_range[2]), pos)

---------------------------------------------------------------------------
(* add_noise_dots *)

\* The colour of a dot from the gen_bool(0.5) draw and the three channel draws.
DotColor(light_raw, r1, r2, r3) ==
    IF GenBool(light_raw, 1, 2)
    THEN << GenRange(r1, 200, 230), GenRange(r2, 200, 230), GenRange(r3, 200, 230) >>
    ELSE << GenRange(r1, 80, 140), GenRange(r2, 80, 140), GenRange(r3, 80, 140) >>

\* The j-th neighbour of (x, y), j in 0..8: dx is the outer loop, dy the inner;
\* nx = (x as i32 + dx).max(0).min(width as i32 - 1), ny alike.
Neighbour(x, y, j, width, height) ==
    << Min(Max(x + ((j \div 3) - 1), 0), width - 1),
       Min(Max(y + ((j % 3) - 1), 0), height - 1) >>

\* One dot, drawn with the draws from before.pos on: x, y, gen_bool(0.5),
\* three channels, gen_bool(0.2) and then, if that was true, one
\* gen_bool(0.3) per neighbour.  The result is [img, pos, oob, hit]: oob if a
\* put_pixel was out of bounds, hit the pixels put so far.
DotPixels(x, y, spread, pos, width, height) ==
    {<<x, y>>} \cup
        (IF spread
         THEN { Neighbour(x, y, j, width, height) :
                  j \in { i \in 0..8 : GenBool(Raw(pos, 7 + i), 3, 10) } }
         ELSE {})

DotDone(before, hit, color, spread) ==
    [ img |-> Paint(before.img, hit \cap DOMAIN before.img.px, color),
      pos |-> before.pos + (IF spread THEN 16 ELSE 7),
      oob |-> before.oob \/ \E p \in hit : ~InBounds(before.img, p[1], p[2]),
      hit |-> before.hit \cup hit ]

DotAt(before, x, y, spread) ==
    DotDone(before,
            DotPixels(x, y, spread, before.pos, before.img.width, before.img.height),
            DotColor(Raw(before.pos, 2), Raw(before.pos, 3), Raw(before.pos, 4),
                     Raw(before.pos, 5)),
            spread)

OneDot(before) ==
    DotAt(before,
          GenRange(Raw(before.pos, 0), 0, before.img.width),
          GenRange(Raw(before.pos, 1), 0, before.img.height),
          GenBool(Raw(before.pos, 6), 1, 5))

\* for _ in 0..count
RECURSIVE Dots(_, _, _)
Dots(image, k, pos) ==
    IF k = 0 THEN [img |-> image, pos |-> pos, oob |-> FALSE, hit |-> {}]
    ELSE OneDot(Dots(image, k - 1, pos))

DotsDone(image, done) ==
    [ panic  |-> done.oob,
      img    |-> done.img,
      pos    |-> done.pos,
      locals |-> [stage |-> "dots", input |-> image, hit |-> done.hit] ]

add_noise_dots(image, count, pos) == DotsDone(image, Dots(image, count, pos))

---------------------------------------------------------------------------
(* add_wave_distortion *)

\* offset = (y as f32 * frequency).sin() * amplitude
WaveOffset(y, amplitude, freq_raw) == RMul(Sin(y, freq_raw), amplitude)

\* x as i32 + offset as i32, in i32
WaveSum(x, offset) == I32Add(x, AsI32(offset))

\* The source column with the offset rounded down.
SrcXFloor(x, offset, width) ==
    Min(Max(I32Add(x, IF IsHuge(offset) THEN AsI32(offset) ELSE RFloor(offset)).v, 0),
        width - 1)

\* src_x = (x as i32 + offset as i32).max(0).min(width as i32 - 1) as u32
SrcX(x, offset, width) == Min(Max(WaveSum(x, offset).v, 0), width - 1)

\* The loop: new_img.put_pixel(x, y, *img.get_pixel(src_x, y)) for every
\* pixel of the new background.
WaveCopy(image, new_img, amplitude, freq_raw) ==
    [new_img EXCEPT !.px =
        [p \in DOMAIN new_img.px |->
           IF InBounds(image, SrcX(p[1], WaveOffset(p[2], amplitude, freq_raw),
                                   image.width), p[2])
           THEN image.px[<<SrcX(p[1], WaveOffset(p[2], amplitude, freq_raw),
                               image.width), p[2]>>]
           ELSE new_img.px[p]]]

WaveOverflow(new_img, amplitude, freq_raw) ==
    \E p \in DOMAIN new_img.px :
        WaveSum(p[1], WaveOffset(p[2], amplitude, freq_raw)).overflow

WaveOutOfBounds(image, new_img, amplitude, freq_raw) ==
    \E p \in DOMAIN new_img.px :
        ~InBounds(image, SrcX(p[1], WaveOffset(p[2], amplitude, freq_raw),
                              image.width), p[2])

WaveDone(image, bg, empty, amplitude, freq_raw, checks) ==
    [ panic  |-> \/ empty
                 \/ checks /\ (bg.overflow \/ WaveOverflow(bg.img, amplitude, freq_raw))
                 \/ WaveOutOfBounds(image, bg.img, amplitude, freq_raw),
      img    |-> WaveCopy(image, bg.img, amplitude, freq_raw),
      pos    |-> bg.pos + 2,
      locals |-> [ stage |-> "wave", input |-> image, empty |-> empty,
                   amplitude |-> amplitude, freq_raw |-> freq_raw,
                   overflow |-> WaveOverflow(bg.img, amplitude, freq_raw) ] ]

\* After the new background: amplitude = gen_range(amplitude_range.0..
\* amplitude_range.1), frequency = gen_range(0.06..0.09).
WaveFrom(image, bg, amplitude_range, checks) ==
    IF EmptyRangeF(amplitude_range[1], amplitude_range[2])
    THEN WaveDone(image, bg, TRUE, RInt(0), 0, checks)
    ELSE WaveDone(image, bg, FALSE,
                  GenRangeF(Raw(bg.pos, 0), amplitude_range[1], amplitude_range[2]),
                  Raw(bg.pos, 1), checks)

\* panics: gen_range on an empty amplitude range (after the new background
\* was made); an i32 overflow of x + offset in a build with overflow checks;
\* get_pixel out of bounds.
add_wave_distortion(image, amplitude_range, pos, checks) ==
    WaveFrom(image, create_background(image.width, image.height, pos),
             amplitude_range, checks)

---------------------------------------------------------------------------
(* Captcha::with_config and generate_captcha_image *)

\* The order with the noise dots before the interference lines.
AfterDotsFirst(call) ==
    CASE call = "generate_code"          -> "create_background"
      [] call = "create_background"      -> "draw_text"
      [] call = "draw_text"              -> "add_noise_dots"
      [] call = "add_noise_dots"         -> "add_interference_lines"
      [] call = "add_interference_lines" -> "add_wave_distortion"
      [] call = "add_wave_distortion"    -> "return"

\* The call that follows `call` in with_config (generate_code, then
\* generate_captcha_image) and in generate_captcha_image's body.
After(call) ==
    CASE call = "generate_code"          -> "create_background"
      [] call = "create_background"      -> "draw_text"
      [] call = "draw_text"              -> "add_interference_lines"
      [] call = "add_interference_lines" -> "add_noise_dots"
      [] call = "add_noise_dots"         -> "add_wave_distortion"
      [] call = "add_wave_distortion"    -> "return"

\* One entry of trace: the call, the buffer it was given, the buffer it left
\* (NoImage if it panicked) and the text it was given.
Call(name, in, out, text) == [call |-> name, in |-> in, out |-> out, text |-> text]

OverflowChecks == build = "debug"

\* let code = generate_code(config.code_length);
GenerateCode ==
    /\ pc = "generate_code"
    /\ \E r \in {generate_code(config.code_length, 0)} :
           /\ code' = r.code
           /\ rng' = RngAfter(rng, r.pos)
           /\ locals' = [stage |-> "code", len |-> config.code_length]
           /\ trace' = Append(trace, Call(pc, NoImage, NoImage, r.code))
    /\ pc' = After(pc)
    /\ UNCHANGED <<build, config, font, img, captcha>>

\* let mut img = create_background(config.width, config.height);
CreateBackground ==
    /\ pc = "create_background"
    /\ \E r \in {Background(config.width, config.height, 0, OverflowChecks)} :
           /\ img' = IF r.panic THEN img ELSE r.img
           /\ rng' = RngAfter(rng, r.pos)
           /\ locals' = [stage |-> "background", overflow |-> r.overflow]
           /\ trace' = Append(trace,
                  Call(pc, NoImage, IF r.panic THEN NoImage ELSE r.img, << >>))
           /\ pc' = IF r.panic THEN "panicked" ELSE After(pc)
    /\ UNCHANGED <<build, config, font, code, captcha>>

\* draw_text(&mut img, code, config.font_size);
DrawText ==
    /\ pc = "draw_text"
    /\ \E r \in {draw_text(img, code, config.font_size, 0)} :
           /\ img' = r.img
           /\ rng' = RngAfter(rng, r.pos)
           /\ locals' = r.locals
           /\ trace' = Append(trace, Call(pc, img, r.img, code))
    /\ pc' = After(pc)
    /\ UNCHANGED <<build, config, font, code, captcha>>

\* add_interference_lines(&mut img, config.interference_lines);
AddInterferenceLines ==
    /\ pc = "add_interference_lines"
    /\ \E r \in {add_interference_lines(img, config.interference_lines, 0)} :
           /\ img' = r.img
           /\ rng' = RngAfter(rng, r.pos)
           /\ locals' = r.locals
           /\ trace' = Append(trace,
                  Call(pc, img, IF r.panic THEN NoImage ELSE r.img, << >>))
           /\ pc' = IF r.panic THEN "panicked" ELSE After(pc)
    /\ UNCHANGED <<build, config, font, code, captcha>>

\* add_noise_dots(&mut img, config.noise_dots);
AddNoiseDots ==
    /\ pc = "add_noise_dots"
    /\ \E r \in {add_noise_dots(img, config.noise_dots, 0)} :
           /\ img' = r.img
           /\ rng' = RngAfter(rng, r.pos)
           /\ locals' = r.locals
           /\ trace' = Append(trace,
                  Call(pc, img, IF r.panic THEN NoImage ELSE r.img, << >>))
           /\ pc' = IF r.panic THEN "panicked" ELSE After(pc)
    /\ UNCHANGED <<build, config, font, code, captcha>>

\* add_wave_distortion(&mut img, config.wave_amplitude): its result is the
\* value of generate_captcha_image, bound to `image` in with_config.
AddWaveDistortion ==
    /\ pc = "add_wave_distortion"
    /\ \E r \in {add_wave_distortion(img, config.wave_amplitude, 0,
                                    OverflowChecks)} :
           /\ img' = IF r.panic THEN img ELSE r.img
           /\ rng' = RngAfter(rng, r.pos)
           /\ locals' = r.locals
           /\ trace' = Append(trace,
                  Call(pc, img, IF r.panic THEN NoImage ELSE r.img, << >>))
           /\ pc' = IF r.panic THEN "panicked" ELSE After(pc)
    /\ UNCHANGED <<build, config, font, code, captcha>>

\* Self { code, image }
Return ==
    /\ pc = "return"
    /\ captcha' = [code |-> code, image |-> img, returned |-> TRUE]
    /\ pc' = "done"
    /\ UNCHANGED <<build, config, font, rng, code, img, locals, trace>>

---------------------------------------------------------------------------
(* The configurations explored *)

LineRanges == { <<0, 2>>, <<2, 4>>, <<2, 2>>, <<3, 1>> }

AmplitudeRanges ==
    { <<R(3, 2), R(5, 2)>>, <<R(-5, 2), R(-3, 2)>>, <<RInt(2), RInt(2)>>,
      <<Huge(1), Huge(2)>> }

\* A configuration in the style of the crate's tests and examples: every
\* canvas size, the other fields as in BaseConfig.
BaseConfig(w, h) ==
    [ width |-> w, height |-> h, code_length |-> MaxLen, font_size |-> RInt(3),
      interference_lines |-> <<0, 2>>, noise_dots |-> MaxDots,
      wave_amplitude |-> <<R(3, 2), R(5, 2)>> ]

\* The inputs of a run: a base configuration with the full font, with at most
\* one of code_length, interference_lines, noise_dots, wave_amplitude changed,
\* or with another font and code length.
Inputs ==
    UNION { LET base == BaseConfig(w, h)
            IN    { [config |-> [base EXCEPT !.code_length = l], font |-> FullFont] :
                      l \in 0..MaxLen }
             \cup { [config |-> [base EXCEPT !.interference_lines = r], font |-> FullFont] :
                      r \in LineRanges }
             \cup { [config |-> [base EXCEPT !.noise_dots = n], font |-> FullFont] :
                      n \in 0..MaxDots }
             \cup { [config |-> [base EXCEPT !.wave_amplitude = a], font |-> FullFont] :
                      a \in AmplitudeRanges }
             \cup { [config |-> [base EXCEPT !.code_length = l], font |-> f] :
                      l \in 1..MaxLen, f \in Fonts }
          : w \in 1..MaxW, h \in 1..MaxH }

Init ==
    /\ pc = "generate_code"
    /\ build \in {"debug", "release"}
    /\ \E i \in Inputs : config = i.config /\ font = i.font
    /\ rng \in RngStates
    /\ code = << >>
    /\ img = NoImage
    /\ locals = NoLocals
    /\ trace = << >>
    /\ captcha = NoCaptcha

Next ==
    \/ GenerateCode
    \/ CreateBackground
    \/ DrawText
    \/ AddInterferenceLines
    \/ AddNoiseDots
    \/ AddWaveDistortion
    \/ Return

Spec == Init /\ [][Next]_vars

---------------------------------------------------------------------------
(* Properties *)

Range(f) == { f[i] : i \in DOMAIN f }

\* The calls of trace, in order.
Calls == [i \in 1..Len(trace) |-> trace[i].call]

\* C3: generate_code(L) returns exactly L characters, each of the alphabet
\* (the empty string for L = 0), and the code of a returned Captcha has
\* config.code_length characters.
C3_CodeLength ==
    /\ pc # "generate_code" =>
          /\ Len(code) = config.code_length
          /\ \A i \in 1..Len(code) : code[i] \in Range(charset)
          /\ pc # "panicked" \/ Len(trace) > 1
    /\ captcha.returned => Len(captcha.code) = config.code_length

C3_Witness ==
    /\ captcha.returned
    /\ config.code_length = MaxLen
    /\ Len(captcha.code) = MaxLen
    /\ Len(captcha.code) > 0

\* The readable symbols: the digits 2 to 9 and the upper case letters
\* without I and O.
Readable ==
    { "2", "3", "4", "5", "6", "7", "8", "9" } \cup
    ( { "A", "B", "C", "D", "E", "F", "G", "H", "I", "J", "K", "L", "M", "N",
        "O", "P", "Q", "R", "S", "T", "U", "V", "W", "X", "Y", "Z" }
      \ { "I", "O" } )

\* C4 as stated: the alphabet generate_code samples has exactly 33 distinct
\* symbols, the digits 2 to 9 and the upper case letters without I and O.
C4_Alphabet33 ==
    pc # "generate_code" =>
        /\ Range(code) \subseteq Readable
        /\ Range(charset) = Readable
        /\ Cardinality(Range(charset)) = 33

\* C4, amended: the alphabet generate_code samples has exactly 32 distinct
\* symbols, the digits 2 to 9 and the upper case letters without I and O; no
\* other character appears in a generated code.
C4_Alphabet32 ==
    /\ Range(code) \subseteq Readable
    /\ pc # "generate_code" =>
          /\ Range(charset) = Readable
          /\ Cardinality(Range(charset)) = 32
          /\ Len(charset) = 32

\* A code holding the first and the last symbol of the alphabet.
C4_Witness ==
    /\ pc # "generate_code"
    /\ "2" \in Range(code)
    /\ "Z" \in Range(code)

\* Whether image is a buffer of exactly w x h pixels.
HasSize(image, w, h) ==
    /\ image.width = w
    /\ image.height = h
    /\ DOMAIN image.px = Grid(w, h)

\* C2: the buffer is exactly config.width x config.height after every stage
\* of the pipeline, the buffer returned by add_wave_distortion and the image
\* of the returned Captcha included.
C2_Dimensions ==
    /\ \A i \in 1..Len(trace) :
          trace[i].call # "generate_code" /\ trace[i].out # NoImage
             => HasSize(trace[i].out, config.width, config.height)
    /\ pc \notin {"generate_code", "create_background", "panicked"}
          => HasSize(img, config.width, config.height)
    /\ captcha.returned => HasSize(captcha.image, config.width, config.height)

C2_Witness ==
    /\ captcha.returned
    /\ config.width = MaxW
    /\ config.height < config.width
    /\ Len(trace) = 6
    /\ HasSize(captcha.image, config.width, config.height)

PipelineOrder ==
    << "generate_code", "create_background", "draw_text",
       "add_interference_lines", "add_noise_dots", "add_wave_distortion" >>

\* C7: with_config generates the code with config.code_length, then runs
\* background, text, lines, dots, wave in this order, each once, each on the
\* buffer the previous one left; the Captcha holds the buffer the wave stage
\* returned and the code that was rendered.
C7_Order ==
    /\ Len(trace) <= Len(PipelineOrder)
    /\ Calls = SubSeq(PipelineOrder, 1, Len(trace))
    /\ \A i \in 4..Len(trace) : trace[i].in = trace[i - 1].out
    /\ Len(trace) >= 3 =>
          /\ trace[3].in = trace[2].out
          /\ trace[3].text = trace[1].text
          /\ Len(trace[1].text) = config.code_length
    /\ captcha.returned =>
          /\ Len(trace) = Len(PipelineOrder)
          /\ captcha.image = trace[6].out
          /\ captcha.code = trace[1].text

\* A Captcha was returned whose text stage and whose wave stage both changed
\* the buffer.
C7_Witness ==
    /\ captcha.returned
    /\ Len(captcha.code) > 0
    /\ trace[3].in # trace[3].out
    /\ trace[6].in # trace[6].out

\* C8: every channel of every pixel create_background returns is in
\* [240, 255]: red is the base, in 245..254, green and blue are the base less
\* an offset in 0..4; the u8 arithmetic does not overflow.
C8_Background ==
    /\ locals.stage = "background" => ~locals.overflow /\ pc # "panicked"
    /\ \A i \in 1..Len(trace) :
          trace[i].call = "create_background" =>
             \A p \in Grid(config.width, config.height) :
                LET c == trace[i].out.px[p]
                IN  /\ \A k \in 1..3 : c[k] \in 240..255
                    /\ c[1] \in 245..254
                    /\ c[1] - c[2] \in 0..4
                    /\ c[1] - c[3] \in 0..4

\* A background with the brightest base and with the largest offset.
C8_Witness ==
    /\ pc = "draw_text"
    /\ \E p \in DOMAIN img.px : img.px[p][1] = 254
    /\ \E p \in DOMAIN img.px : img.px[p][1] = 245 /\ img.px[p][2] = 241

\* C1 as stated: for every configuration with positive width and height,
\* with_config does not panic, also when interference_lines or
\* wave_amplitude has min >= max.
C1_NoPanic == pc # "panicked"

\* The offset of row y in the wave stage that ran last.
WaveOff(y) == RMul(locals.amplitude, Sin(y, locals.freq_raw))

\* C5 as stated: in add_wave_distortion (its amplitude range not empty), for
\* every destination pixel and every amplitude, x + offset neither panics nor
\* overflows, and the source column is x + offset clamped to [0, width - 1].
C5_SourceClamped ==
    locals.stage = "wave" /\ ~locals.empty =>
        /\ pc # "panicked"
        /\ ~locals.overflow
        /\ \A p \in Grid(config.width, config.height) :
              SrcX(p[1], WaveOff(p[2]), config.width) \in 0..(config.width - 1)

\* C6 as stated (for amplitudes inside the i32 range): every pixel (x, y) of
\* the buffer add_wave_distortion returns is the input pixel at
\* (clamp(x + floor(amplitude * sin(frequency * y)), 0, width - 1), y).
C6_Floor ==
    pc = "return" /\ ~IsHuge(locals.amplitude) =>
        \A p \in Grid(config.width, config.height) :
            img.px[p] =
              locals.input.px[<< Clamp(p[1] + RFloor(WaveOff(p[2])), 0,
                                       config.width - 1), p[2] >>]

\* The column read for destination column x and the offset off: x plus off
\* rounded toward zero, clamped.  A huge off saturates at the i32 bounds; the
\* sum with a positive one overflows unless x = 0, and where the call
\* returns nevertheless (no overflow checks) it has wrapped below 0.
TruncatedSource(x, off, width) ==
    IF IsHuge(off)
    THEN (IF off.n > 0 /\ x = 0 THEN width - 1 ELSE 0)
    ELSE Clamp(x + RTrunc(off), 0, width - 1)

\* C6, amended: every pixel (x, y) of the buffer add_wave_distortion returns
\* is the input pixel at (clamp(x + trunc(amplitude * sin(frequency * y)), 0,
\* width - 1), y), trunc rounding toward zero; the source is in row y.
C6_Truncated ==
    pc = "return" =>
        /\ locals.stage = "wave"
        /\ locals.input = trace[5].out
        /\ \A p \in Grid(config.width, config.height) :
              img.px[p] =
                locals.input.px[<< TruncatedSource(p[1], WaveOff(p[2]),
                                                   config.width), p[2] >>]

\* A returned buffer with a row whose offset is negative and not whole, in
\* which rounding down would have read another pixel value.
C6_Witness ==
    /\ pc = "return"
    /\ ~IsHuge(locals.amplitude)
    /\ \E p \in Grid(config.width, config.height) :
          /\ WaveOff(p[2]).n < 0
          /\ WaveOff(p[2]).d > 1
          /\ img.px[p] #
               locals.input.px[<< Clamp(p[1] + RFloor(WaveOff(p[2])), 0,
                                        config.width - 1), p[2] >>]
          /\ img.px[p] # locals.input.px[p]

\* The sum of the advance widths of the first k characters of text.
RECURSIVE AdvanceSum(_, _)
AdvanceSum(text, k) ==
    IF k = 0 THEN RInt(0)
    ELSE RAdd(AdvanceSum(text, k - 1), Glyph(text[k]).advance_width)

\* C9: in draw_text a character whose glyph has no bounding box writes no
\* pixel and raises no error, and the cursor advances for it as for any other:
\* after the k-th character it is start_x + the first k advances + 8 * k, with
\* start_x = (width - (all advances + 8 * (N - 1))) / 2; the jitter moves the
\* draw position only.
C9_Cursor ==
    locals.stage = "text" =>
        LET text == locals.text
            N == Len(text)
            start == RHalf(RSub(RInt(config.width),
                                RAdd(AdvanceSum(text, N), RInt(8 * (N - 1)))))
        IN  /\ pc # "panicked"
            /\ text = code
            /\ Len(locals.chars) = N
            /\ locals.start_x = start
            /\ \A k \in 1..N :
                  LET c == locals.chars[k]
                      jitter == RSub(c.x_offset, c.cursor_before)
                  IN  /\ c.cursor_after =
                           RAdd(start, RAdd(AdvanceSum(text, k), RInt(8 * k)))
                      /\ c.cursor_before =
                           IF k = 1 THEN start ELSE locals.chars[k - 1].cursor_after
                      /\ ~RLt(jitter, RInt(-2)) /\ RLt(jitter, RInt(2))
                      /\ Glyph(text[k]).bb.none => c.wrote = {}
            /\ \A p \in Grid(config.width, config.height) :
                  (\A k \in 1..N : p \notin locals.chars[k].wrote)
                      => img.px[p] = locals.input.px[p]

\* A character without bounding box was skipped at a position on the canvas,
\* and a character was skipped before another one.
C9_Witness ==
    /\ locals.stage = "text"
    /\ \E k \in 1..Len(locals.chars) :
          /\ ~locals.chars[k].has_bb
          /\ locals.chars[k].x_offset.n >= 0
          /\ RLt(locals.chars[k].x_offset, RInt(config.width))
          /\ locals.chars[k].cursor_after # locals.chars[k].cursor_before
          /\ img = locals.input

\* The pixels of column x line covers: rows trunc(y) + dy, dy in -1..1, clamped.
Covers(line, p, height) ==
    \E dy \in {-1, 0, 1} :
        p[2] = Clamp(RTrunc(RAdd(RInt(line.start_y),
                                 RMul(line.amplitude, Sin(p[1], line.freq_raw)))) + dy,
                     0, height - 1)

\* C10: with min < max, add_interference_lines draws k lines, min <= k < max;
\* each line overwrites, in every column x, the rows clamp(trunc(y) + dy, 0,
\* height - 1), dy in -1..1, with its colour; no other pixel changes.
C10_Lines ==
    locals.stage = "lines"
        /\ config.interference_lines[1] < config.interference_lines[2] =>
        /\ pc # "panicked"
        /\ locals.count >= config.interference_lines[1]
        /\ locals.count < config.interference_lines[2]
        /\ Len(locals.lines) = locals.count
        /\ \A l \in 1..locals.count :
              /\ \A k \in 1..3 : locals.lines[l].color[k] \in 180..209
              /\ locals.lines[l].start_y \in 0..(config.height - 1)
        /\ \A p \in Grid(config.width, config.height) :
              LET over == { l \in 1..locals.count :
                              Covers(locals.lines[l], p, config.height) }
              IN  img.px[p] =
                    IF over = {} THEN locals.input.px[p]
                    ELSE locals.lines[CHOOSE l \in over : \A m \in over : m <= l].color

\* The default range drew three lines, or two; a pixel was overwritten and
\* another one kept.
C10_Witness ==
    /\ locals.stage = "lines"
    /\ config.interference_lines = <<2, 4>>
    /\ locals.count = 3
    /\ \E p \in DOMAIN img.px : img.px[p] # locals.input.px[p]
    /\ \E p \in DOMAIN img.px :
          \A l \in 1..locals.count : ~Covers(locals.lines[l], p, config.height)

====
